---- MODULE Spec2Model ----
(***************************************************************************)
(* Verification model of the obsidian-chord-sheets plugin:                 *)
(*   - the custom chord type registry (customChordTypes.ts),               *)
(*   - ChordSheetsPlugin.transpose and its callers (main.ts),              *)
(*   - the command check callbacks and the autoscroll control map.         *)
(* Text is modelled as a sequence of one-character strings, so that        *)
(* splitting, concatenating and re-reading chord text is computed, not     *)
(* assumed.                                                                *)
(***************************************************************************)
EXTENDS Integers, Sequences, FiniteSets, Bags, TLC

VARIABLES
    \* ---- transpose(chordTokenRanges, editor, direction), one call
    chordTokenRanges,   \* the argument: sequence of [from, to, value]
    direction,          \* "up" | "down" | "none" (not called yet)
    changes,            \* the ChangeSpec[] handed to applyChanges
    \* ---- a chord of the document transposed again and again
    origChord,          \* the chord text first written
    curChord,           \* the chord text now in the document
    ups,                \* transpose-up operations applied so far
    downs,              \* transpose-down operations applied so far
    \* ---- the chord type registry (customChordTypes.ts and tonal's table)
    defs,               \* the entries of the customChordTypes array literal
    moduleState,        \* "unloaded" | "loaded" | "failed"
    moduleError,        \* the type named by the thrown Error ("" when none)
    customChordTypes,   \* the array, once the module is evaluated
    dictionary,         \* tonal's list of chord types (ChordType.all())
    index,              \* tonal's lookup by name and alias (ChordType.get)
    addCalls,           \* completed calls of addCustomChordTypes
    \* ---- the running plugin (main.ts)
    pluginPhase,        \* "off" | "imported" | "settings" | "ready" | "unloaded"
    docLine,            \* the text of the chord block's line in the editor
    docVersion,         \* number of document changes so far
    pending,            \* bag of transposes waiting on getChordTokensForBlock's promise
    workspace,          \* [view, chordPlugin, cursorInBlock]: what the lookups return
    autoscroll,         \* viewAutoscrollControlMap entry of the view
    lastCall            \* the check callback run last with checking = true, and its result

trVars == <<chordTokenRanges, direction, changes>>
cycVars == <<origChord, curChord, ups, downs>>
regVars == <<defs, moduleState, moduleError, customChordTypes, dictionary, index, addCalls>>
docVars == <<docLine, docVersion>>
plugVars == <<pluginPhase, docVars, pending, workspace, autoscroll, lastCall>>
vars == <<trVars, cycVars, regVars, plugVars>>

(***************************************************************************)
(* Bounds of the model.                                                    *)
(***************************************************************************)
MaxTokens == 2
MaxSteps == 12
MaxGap == 1
MaxAddCalls == 2
MaxVersion == 2
MaxPending == 1
MaxSpeed == 2

(***************************************************************************)
(* Text helpers (JavaScript string operations used by main.ts).            *)
(***************************************************************************)
\* s.substring(n): the text from (0-based) index n on
DropFirst(s, n) == SubSeq(s, n + 1, Len(s))

\* chordType.includes('/')
includes(s, c) == \E i \in 1..Len(s) : s[i] = c

\* index of the first occurrence of c in s (0 when there is none)
IndexOf(s, c) ==
    IF includes(s, c)
    THEN CHOOSE i \in 1..Len(s) : s[i] = c /\ \A j \in 1 .. (i - 1) : s[j] # c
    ELSE 0

\* chordType.split('/'): every part between separators, in order
RECURSIVE split(_, _)
split(s, c) ==
    IF ~includes(s, c)
    THEN <<s>>
    ELSE <<SubSeq(s, 1, IndexOf(s, c) - 1)>> \o split(DropFirst(s, IndexOf(s, c)), c)

\* length of the longest prefix of s made of characters of set cs
RunLen(s, cs) ==
    CHOOSE n \in 0..Len(s) :
        /\ \A i \in 1..n : s[i] \in cs
        /\ (n < Len(s) => s[n + 1] \notin cs)

(***************************************************************************)
(* tonal: Chord.tokenize(name) -> [tonic, type]  (main.ts line 264).       *)
(* tokenizeNote reads, in this order: an optional letter a-g or A-G, a run  *)
(* of one kind of accidental (sharps, flats or x), an optional minus sign  *)
(* and digits (the octave), blanks, and the rest; it upper-cases the       *)
(* letter.                                                                 *)
(***************************************************************************)
Letters == {"A", "B", "C", "D", "E", "F", "G"}
LowerLetters == {"a", "b", "c", "d", "e", "f", "g"}
Digits == {"0", "1", "2", "3", "4", "5", "6", "7", "8", "9"}

UpperCase(c) ==
    CASE c = "a" -> "A" [] c = "b" -> "B" [] c = "c" -> "C" [] c = "d" -> "D"
      [] c = "e" -> "E" [] c = "f" -> "F" [] c = "g" -> "G" [] OTHER -> c

tokenizeNote(str) ==
    LET nLetter == IF Len(str) > 0 /\ str[1] \in (Letters \cup LowerLetters) THEN 1 ELSE 0
        r1 == DropFirst(str, nLetter)
        nAcc == IF Len(r1) > 0 /\ r1[1] \in {"#", "b", "x"} THEN RunLen(r1, {r1[1]}) ELSE 0
        r2 == DropFirst(r1, nAcc)
        nMinus == IF Len(r2) > 0 /\ r2[1] = "-" THEN 1 ELSE 0
        nOct == nMinus + RunLen(DropFirst(r2, nMinus), Digits)
        r3 == DropFirst(r2, nOct)
        nSpace == RunLen(r3, {" "})
    IN  [letter |-> IF nLetter = 1 THEN <<UpperCase(str[1])>> ELSE <<>>,
         acc |-> SubSeq(r1, 1, nAcc),
         oct |-> SubSeq(r2, 1, nOct),
         type |-> DropFirst(r3, nSpace)]

ChordTokenize(name) ==
    LET t == tokenizeNote(name)
    IN  IF t.letter = <<>> THEN << <<>>, name >>
        ELSE IF t.letter = <<"A">> /\ t.type = <<"u", "g">> THEN << <<>>, <<"a", "u", "g">> >>
        ELSE << t.letter \o t.acc, t.oct \o t.type >>

(***************************************************************************)
(* transposeTonic(tonic, direction), imported from ./chordsUtils           *)
(* (main.ts line 6).  Modelled from the specification, section 4.3 step 2  *)
(* and section 7: one semitone in pitch-class arithmetic, re-spelled with  *)
(* sharps going up and flats going down; text that is no tonic is passed   *)
(* through verbatim.                                                       *)
(***************************************************************************)
IsTonic(s) ==
    /\ Len(s) >= 1
    /\ s[1] \in Letters
    /\ \/ \A i \in 2..Len(s) : s[i] = "#"
       \/ \A i \in 2..Len(s) : s[i] = "b"

LetterPc(c) ==
    CASE c = "C" -> 0 [] c = "D" -> 2 [] c = "E" -> 4 [] c = "F" -> 5
      [] c = "G" -> 7 [] c = "A" -> 9 [] c = "B" -> 11

\* pitch class (0..11) of a tonic
PitchClass(s) ==
    LET n == Len(s) - 1
        delta == IF n > 0 /\ s[2] = "#" THEN n ELSE 0 - n
    IN  (LetterPc(s[1]) + delta) % 12

SharpNames ==
    << <<"C">>, <<"C", "#">>, <<"D">>, <<"D", "#">>, <<"E">>, <<"F">>,
       <<"F", "#">>, <<"G">>, <<"G", "#">>, <<"A">>, <<"A", "#">>, <<"B">> >>

FlatNames ==
    << <<"C">>, <<"D", "b">>, <<"D">>, <<"E", "b">>, <<"E">>, <<"F">>,
       <<"G", "b">>, <<"G">>, <<"A", "b">>, <<"A">>, <<"B", "b">>, <<"B">> >>

transposeTonic(chordTonic, dir) ==
    IF ~IsTonic(chordTonic) THEN chordTonic
    ELSE IF dir = "up" THEN SharpNames[((PitchClass(chordTonic) + 1) % 12) + 1]
    ELSE FlatNames[((PitchClass(chordTonic) + 11) % 12) + 1]

(***************************************************************************)
(* ChordSheetsPlugin.transpose (main.ts lines 260-282).                    *)
(***************************************************************************)
\* the body of the loop for one token: lines 264-275
transposedChord(value, dir) ==
    LET tok == ChordTokenize(value)
        chordTonic == tok[1]
        chordType == tok[2]
        simplifiedTonic == transposeTonic(chordTonic, dir)
    IN  IF chordType # <<>> /\ includes(chordType, "/")
        THEN LET parts == split(chordType, "/")
                 slashChordType == parts[1]
                 afterSlash == parts[2]
             IN  simplifiedTonic \o slashChordType \o <<"/">> \o transposeTonic(afterSlash, dir)
        ELSE simplifiedTonic \o chordType

\* the two parts Chord.tokenize gives for a chord text
TonicOf(text) == ChordTokenize(text)[1]
QualityOf(text) == ChordTokenize(text)[2]

\* mutants of transpose (plausible slips in the loop of lines 262-280)
\* changes collected back to front (unshift instead of push)
transpose_Reversed(ranges, dir) ==
    [i \in 1..Len(ranges) |->
        [from |-> ranges[Len(ranges) + 1 - i].from,
         to |-> ranges[Len(ranges) + 1 - i].to,
         insert |-> transposedChord(ranges[Len(ranges) + 1 - i].value, dir)]]

\* a token whose text after the slash is no tonic aborts the loop: nothing is handed on
transpose_AbortOnMalformed(ranges, dir) ==
    IF \E i \in 1..Len(ranges) :
          LET chordType == ChordTokenize(ranges[i].value)[2]
          IN  includes(chordType, "/") /\ ~IsTonic(split(chordType, "/")[2])
    THEN <<>>
    ELSE [i \in 1..Len(ranges) |->
            [from |-> ranges[i].from,
             to |-> ranges[i].to,
             insert |-> transposedChord(ranges[i].value, dir)]]

\* the whole loop: one change pushed per token range, in order
transpose(ranges, dir) ==
    [i \in 1..Len(ranges) |->
        [from |-> ranges[i].from,
         to |-> ranges[i].to,
         insert |-> transposedChord(ranges[i].value, dir)]]

(***************************************************************************)
(* Inputs of one transpose call.  getChordTokensForBlock (the tokenizer,   *)
(* ./editor-extension/chordSheetsViewPlugin) yields the chord tokens of a  *)
(* block in text order with disjoint spans; here a block is a line of      *)
(* chord words separated by blanks.                                        *)
(***************************************************************************)
BatchValues ==
    { <<"C">>, <<"B", "b", "7">>, <<"C", "#", "m">>, <<"G", "/", "B">>,
      <<"C", "6", "/", "9">>, <<"C", "6", "/", "9", "/", "E">>, <<"D", "/">> }

\* spans of the words vals[1..n], word i preceded by 1 + gaps[i] blanks
\* (gaps[1] blanks for the first word)
RECURSIVE TokenRanges(_, _)
TokenRanges(vals, gaps) ==
    IF Len(vals) = 0 THEN <<>>
    ELSE LET n == Len(vals)
             before == TokenRanges(SubSeq(vals, 1, n - 1), SubSeq(gaps, 1, n - 1))
             start == IF n = 1 THEN gaps[1] ELSE before[n - 1].to + 1 + gaps[n]
         IN  Append(before, [from |-> start, to |-> start + Len(vals[n]), value |-> vals[n]])

InputBlocks ==
    UNION { { TokenRanges(vals, gaps) : vals \in [1..n -> BatchValues], gaps \in [1..n -> 0..MaxGap] }
            : n \in 0..MaxTokens }

\* transpose(chordTokens, editorView, direction): main.ts lines 260-282
TransposeCall ==
    /\ direction = "none"
    /\ \E d \in {"up", "down"} :
        /\ direction' = d
        /\ changes' = transpose(chordTokenRanges, d)
    /\ UNCHANGED chordTokenRanges

(***************************************************************************)
(* One chord of the document transposed repeatedly: every operation reads  *)
(* the chord text now in the document and replaces it by its transposed    *)
(* text.                                                                   *)
(***************************************************************************)
CycleQualities ==
    { <<>>, <<"m", "7">>, <<"/", "B">>, <<"7", "/", "F", "#">>, <<"6", "/", "9">>,
      <<"b", "9", "s", "u", "s">> }

CycleChords == { SharpNames[i] \o q : i \in 1..12, q \in CycleQualities }

StepUp ==
    /\ ups + downs < MaxSteps
    /\ curChord' = transpose(<<[from |-> 0, to |-> Len(curChord), value |-> curChord]>>, "up")[1].insert
    /\ ups' = ups + 1
    /\ UNCHANGED <<origChord, downs>>

StepDown ==
    /\ ups + downs < MaxSteps
    /\ curChord' = transpose(<<[from |-> 0, to |-> Len(curChord), value |-> curChord]>>, "down")[1].insert
    /\ downs' = downs + 1
    /\ UNCHANGED <<origChord, ups>>

(***************************************************************************)
(* tonal's chord type table (an excerpt of its built-in data) and its      *)
(* ChordType.get / ChordType.add, as called at customChordTypes.ts lines   *)
(* 21 and 35.  A chord type is a record; a Partial<CustomChordType> is a   *)
(* record with a subset of the fields intervals, aliases, name.            *)
(***************************************************************************)
NoChordType ==
    [empty |-> TRUE, name |-> "", quality |-> "Unknown", intervals |-> <<>>, aliases |-> <<>>]

getQuality(intervals) ==
    LET has(x) == \E i \in 1..Len(intervals) : intervals[i] = x
    IN  IF has("5A") THEN "Augmented"
        ELSE IF has("3M") THEN "Major"
        ELSE IF has("5d") THEN "Diminished"
        ELSE IF has("3m") THEN "Minor"
        ELSE "Unknown"

BaseDictionary ==
    << [empty |-> FALSE, name |-> "major seventh", quality |-> "Major",
        intervals |-> <<"1P", "3M", "5P", "7M">>, aliases |-> <<"maj7", "M7">>],
       [empty |-> FALSE, name |-> "", quality |-> "Augmented",
        intervals |-> <<"1P", "3M", "5A", "7m">>, aliases |-> <<"7#5", "+7">>],
       [empty |-> FALSE, name |-> "minor ninth", quality |-> "Minor",
        intervals |-> <<"1P", "3m", "5P", "7m", "9M">>, aliases |-> <<"m9", "-9">>] >>

Range(seq) == { seq[i] : i \in 1..Len(seq) }

\* the keys under which tonal indexes a chord type: its name when it has one, its aliases
KeysOf(chord) == (IF chord.name # "" THEN {chord.name} ELSE {}) \cup Range(chord.aliases)

\* the index after the chord types of list are added in order: a later one wins a key
IndexOfList(list) ==
    [k \in UNION { KeysOf(list[i]) : i \in 1..Len(list) } |->
        list[CHOOSE i \in 1..Len(list) :
                /\ k \in KeysOf(list[i])
                /\ \A j \in (i + 1)..Len(list) : k \notin KeysOf(list[j])]]

BaseIndex == IndexOfList(BaseDictionary)

\* ChordType.get(type) on the lookup table idx
ChordTypeGet(idx, type) == IF type \in DOMAIN idx THEN idx[type] ELSE NoChordType

\* ChordType.add(intervals, aliases, fullName) on the table [dictionary, index]
ChordTypeAdd(table, intervals, aliases, fullName) ==
    LET chord == [empty |-> FALSE, name |-> fullName, quality |-> getQuality(intervals),
                  intervals |-> intervals, aliases |-> aliases]
    IN  [dictionary |-> Append(table.dictionary, chord),
         index |-> [k \in DOMAIN table.index \cup KeysOf(chord) |->
                        IF k \in KeysOf(chord) THEN chord ELSE table.index[k]]]

(***************************************************************************)
(* customChordTypes.ts                                                     *)
(***************************************************************************)
\* { ...a, ...b }: object spread, the later object's fields win
Spread(a, b) == [f \in DOMAIN a \cup DOMAIN b |-> IF f \in DOMAIN b THEN b[f] ELSE a[f]]

\* mutant of extendChordType: the extension spread last, so that its aliases win
extendChordType_ExtensionSpreadLast(idx, type, chordTypeExtension) ==
    LET originalChordType == ChordTypeGet(idx, type)
        mergedAliases == originalChordType.aliases \o
            (IF "aliases" \in DOMAIN chordTypeExtension THEN chordTypeExtension.aliases ELSE <<>>)
    IN  IF originalChordType.empty
        THEN [thrown |-> TRUE, type |-> type]
        ELSE [thrown |-> FALSE,
              value |-> Spread(Spread(originalChordType, [aliases |-> mergedAliases]),
                               chordTypeExtension)]

\* mutant of extendChordType: the empty lookup result is not checked
extendChordType_NoCheck(idx, type, chordTypeExtension) ==
    LET originalChordType == ChordTypeGet(idx, type)
        mergedAliases == originalChordType.aliases \o
            (IF "aliases" \in DOMAIN chordTypeExtension THEN chordTypeExtension.aliases ELSE <<>>)
    IN  [thrown |-> FALSE,
         value |-> Spread(Spread(originalChordType, chordTypeExtension),
                          [aliases |-> mergedAliases])]

\* extendChordType(type, chordTypeExtension), lines 20-31; idx is tonal's lookup
\* table at the time of the call.  The result is either the thrown Error (with
\* the type it names) or the returned value.
extendChordType(idx, type, chordTypeExtension) ==
    LET originalChordType == ChordTypeGet(idx, type)
        mergedAliases == originalChordType.aliases \o
            (IF "aliases" \in DOMAIN chordTypeExtension THEN chordTypeExtension.aliases ELSE <<>>)
    IN  IF originalChordType.empty
        THEN [thrown |-> TRUE, type |-> type]
        ELSE [thrown |-> FALSE,
              value |-> Spread(Spread(originalChordType, chordTypeExtension),
                               [aliases |-> mergedAliases])]

\* the array literal of lines 9-18
SourceDefs ==
    << [kind |-> "extend", type |-> "7#5", ext |-> [aliases |-> <<"7(5+)", "7(+5)", "7+5">>]],
       [kind |-> "extend", type |-> "M7", ext |-> [aliases |-> <<"7M">>]],
       [kind |-> "extend", type |-> "m9", ext |-> [aliases |-> <<"m7(9)">>]],
       [kind |-> "literal",
        value |-> [name |-> "suspended four sharp five",
                   intervals |-> <<"1P", "4P", "5A">>,
                   aliases |-> <<"sus4#5", "4(5+)">>]] >>

\* arguments extendChordType is exercised with
TypeInputs == {"7#5", "M7", "m9", "maj7", "major seventh", "nonexistent"}

AliasInputs == { <<>>, <<"7M">>, <<"maj7", "7M">> }

ExtensionInputs ==
    {[x \in {} |-> x]}
    \cup { [aliases |-> a] : a \in AliasInputs }
    \cup { [name |-> "custom"], [intervals |-> <<"1P", "4P", "5A">>] }
    \cup { [aliases |-> a, name |-> "custom"] : a \in AliasInputs }
    \cup { [aliases |-> a, name |-> "", intervals |-> <<"1P", "3m", "5d">>] : a \in AliasInputs }

\* SourceDefs, or SourceDefs with one extendChordType call given other arguments
DefsInputs ==
    {SourceDefs} \cup
    { [SourceDefs EXCEPT ![k] = [kind |-> "extend", type |-> t, ext |-> e]] :
        k \in 1..3, t \in TypeInputs, e \in ExtensionInputs }

\* the value of entry d of the array literal, or the Error its evaluation throws
EvalDef(idx, d) ==
    IF d.kind = "extend" THEN extendChordType(idx, d.type, d.ext)
    ELSE [thrown |-> FALSE, value |-> d.value]

\* evaluation of the module: the const customChordTypes of lines 9-18 is built
\* entry by entry; the first Error thrown ends the evaluation and the module
\* (with its export addCustomChordTypes) does not load
LoadModule ==
    /\ moduleState = "unloaded"
    /\ LET results == [i \in 1..Len(defs) |-> EvalDef(index, defs[i])]
           failing == { i \in 1..Len(defs) : results[i].thrown }
       IN  IF failing = {}
           THEN /\ moduleState' = "loaded"
                /\ customChordTypes' = [i \in 1..Len(defs) |-> results[i].value]
                /\ moduleError' = ""
           ELSE /\ moduleState' = "failed"
                /\ customChordTypes' = <<>>
                /\ moduleError' = results[CHOOSE i \in failing : \A j \in failing : i <= j].type
    /\ UNCHANGED <<defs, dictionary, index, addCalls>>

\* the forEach of lines 34-36 over list, starting from table
RECURSIVE AddAll(_, _)
AddAll(table, list) ==
    IF Len(list) = 0 THEN table
    ELSE AddAll(ChordTypeAdd(table, Head(list).intervals, Head(list).aliases, Head(list).name),
                Tail(list))

\* mutant of addCustomChordTypes: the list is built again, from the table as it
\* is now, on every call
AddCustomChordTypes_Rebuilt ==
    /\ moduleState = "loaded"
    /\ addCalls < MaxAddCalls
    /\ LET rebuilt == [i \in 1..Len(defs) |-> EvalDef(index, defs[i]).value]
           table == AddAll([dictionary |-> dictionary, index |-> index], rebuilt)
       IN  /\ dictionary' = table.dictionary
           /\ index' = table.index
    /\ addCalls' = addCalls + 1
    /\ UNCHANGED <<defs, moduleState, moduleError, customChordTypes>>

\* mutant of addCustomChordTypes: the aliases are not handed to ChordType.add
AddCustomChordTypes_WithoutAliases ==
    /\ moduleState = "loaded"
    /\ addCalls < MaxAddCalls
    /\ LET named == [i \in 1..Len(customChordTypes) |->
                        [customChordTypes[i] EXCEPT !.aliases = <<>>]]
           table == AddAll([dictionary |-> dictionary, index |-> index], named)
       IN  /\ dictionary' = table.dictionary
           /\ index' = table.index
    /\ addCalls' = addCalls + 1
    /\ UNCHANGED <<defs, moduleState, moduleError, customChordTypes>>

\* addCustomChordTypes(), lines 33-37
AddCustomChordTypes ==
    /\ moduleState = "loaded"
    /\ addCalls < MaxAddCalls
    /\ LET table == AddAll([dictionary |-> dictionary, index |-> index], customChordTypes)
       IN  /\ dictionary' = table.dictionary
           /\ index' = table.index
    /\ addCalls' = addCalls + 1
    /\ UNCHANGED <<defs, moduleState, moduleError, customChordTypes>>

(***************************************************************************)
(* The running plugin: main.ts.                                            *)
(* The editor shows one chord block: its first line names the instrument,  *)
(* its body is one line of chord words.  The view's autoscroll button      *)
(* (updateAutoscrollButton) only displays the autoscroll entry and is not  *)
(* part of the state.                                                      *)
(***************************************************************************)
\* values of the plugin's state before anything has happened
NoCall == [checking |-> FALSE, result |-> FALSE]
NoControl == [present |-> FALSE, isRunning |-> FALSE, speed |-> 0]
NoWorkspace == [view |-> FALSE, chordPlugin |-> FALSE, cursorInBlock |-> FALSE]

DocInputs ==
    { <<"C">>, <<"G", "/", "B", " ", "A">> }

InstrumentInputs == {"", "ukulele", "guitar"}

\* the words of a line with their spans, in text order
RECURSIVE WordsFrom(_, _)
WordsFrom(line, offset) ==
    IF Len(line) = 0 THEN <<>>
    ELSE IF line[1] = " " THEN WordsFrom(Tail(line), offset + 1)
    ELSE LET n == RunLen(line, { line[i] : i \in 1..Len(line) } \ {" "})
         IN  <<[from |-> offset, to |-> offset + n, value |-> SubSeq(line, 1, n)]>>
                \o WordsFrom(DropFirst(line, n), offset + n)

\* chordPlugin.getChordTokensForBlock(block): the chord tokens of the block
\* with their spans (./editor-extension/chordSheetsViewPlugin); a word is a
\* chord token when it starts with a tonic
getChordTokensForBlock(line) ==
    LET words == WordsFrom(line, 0)
    IN  SelectSeq(words, LAMBDA w : TonicOf(w.value) # <<>>)

\* chordPlugin.applyChanges(changes): the edits are applied to the document as
\* one transaction, every span read against the document as it is now; a span
\* past the end of the document is refused and nothing changes
RECURSIVE ApplyFromLast(_, _)
ApplyFromLast(line, edits) ==
    IF Len(edits) = 0 THEN line
    ELSE LET e == edits[Len(edits)]
         IN  ApplyFromLast(SubSeq(line, 1, e.from) \o e.insert \o DropFirst(line, e.to),
                           SubSeq(edits, 1, Len(edits) - 1))

applyChanges(line, edits) ==
    IF \A i \in 1..Len(edits) : edits[i].to <= Len(line)
    THEN ApplyFromLast(line, edits)
    ELSE line

\* AutoscrollControl.stop() on the map entry, when there is one (lines 336-337)
Stopped(control) == IF control.present THEN [control EXCEPT !.isRunning = FALSE] ELSE control

Ready == pluginPhase = "ready"

\* the module customChordTypes is evaluated when the bundle is loaded
ImportModules ==
    /\ pluginPhase = "off"
    /\ LoadModule
    /\ UNCHANGED plugVars

\* addCustomChordTypes() is called once while the bundle loads, before the
\* plugin object exists (specification, section 4.1 and section 5)
RegisterAtLoad ==
    /\ pluginPhase = "off"
    /\ moduleState = "loaded"
    /\ AddCustomChordTypes
    /\ pluginPhase' = "imported"
    /\ UNCHANGED <<docVars, pending, workspace, autoscroll, lastCall>>

\* onload(), line 30: await this.loadSettings()
OnloadStart ==
    /\ pluginPhase = "imported"
    /\ pluginPhase' = "settings"
    /\ UNCHANGED <<regVars, docVars, pending, workspace, autoscroll, lastCall>>

\* onload(), lines 33-181: post processor, editor extension, event handlers,
\* commands and settings tab are registered
OnloadFinish ==
    /\ pluginPhase = "settings"
    /\ pluginPhase' = "ready"
    /\ UNCHANGED <<regVars, docVars, pending, workspace, autoscroll, lastCall>>

\* the user moves between panes or moves the cursor: what
\* getActiveViewOfType, editorView.plugin and getChordSheetBlockAtCursor return
WorkspaceChange ==
    /\ Ready
    /\ \E v, p, c \in BOOLEAN :
        /\ (p => v) /\ (c => p)
        /\ workspace' = [view |-> v, chordPlugin |-> p, cursorInBlock |-> c]
        /\ workspace' # workspace
    /\ lastCall' = NoCall
    /\ UNCHANGED <<regVars, pluginPhase, docVars, pending, autoscroll>>

\* handler of "chord-sheet-transpose", lines 77-90, up to the await of line 86
TransposeEvent ==
    /\ Ready
    /\ \E d \in {"up", "down"} :
        IF workspace.view /\ workspace.chordPlugin
        THEN /\ BagCardinality(pending) < MaxPending
             /\ pending' = pending (+) SetToBag({
                    [chordTokens |-> getChordTokensForBlock(docLine),
                     version |-> docVersion, direction |-> d]})
        ELSE UNCHANGED pending
    /\ lastCall' = NoCall
    /\ UNCHANGED <<regVars, pluginPhase, docVars, workspace, autoscroll>>

\* mutant of transposeCommand: the flag checking is not looked at
transposeCommand_IgnoresChecking(checking, d) ==
    /\ workspace.view
    /\ IF workspace.chordPlugin /\ ~workspace.cursorInBlock
       THEN /\ lastCall' = IF checking THEN [checking |-> TRUE, result |-> FALSE] ELSE NoCall
            /\ UNCHANGED pending
       ELSE /\ lastCall' = IF checking THEN [checking |-> TRUE, result |-> TRUE] ELSE NoCall
            /\ IF workspace.chordPlugin
               THEN /\ BagCardinality(pending) < MaxPending
                    /\ pending' = pending (+) SetToBag({
                           [chordTokens |-> getChordTokensForBlock(docLine),
                            version |-> docVersion, direction |-> d]})
               ELSE UNCHANGED pending

\* transposeCommand(editor, plugin, checking, direction), lines 201-219, up to
\* the then of line 212; the editor callbacks run only with an active editor
transposeCommand(checking, d) ==
    /\ workspace.view
    /\ IF workspace.chordPlugin /\ ~workspace.cursorInBlock
       THEN /\ lastCall' = IF checking THEN [checking |-> TRUE, result |-> FALSE] ELSE NoCall
            /\ UNCHANGED pending
       ELSE /\ lastCall' = IF checking THEN [checking |-> TRUE, result |-> TRUE] ELSE NoCall
            /\ IF workspace.chordPlugin /\ ~checking
               THEN /\ BagCardinality(pending) < MaxPending
                    /\ pending' = pending (+) SetToBag({
                           [chordTokens |-> getChordTokensForBlock(docLine),
                            version |-> docVersion, direction |-> d]})
               ELSE UNCHANGED pending

\* commands chord-sheet-transpose-up / -down, lines 134-146
TransposeCommand ==
    /\ Ready
    /\ \E checking \in BOOLEAN, d \in {"up", "down"} : transposeCommand(checking, d)
    /\ UNCHANGED <<regVars, pluginPhase, docVars, workspace, autoscroll>>

\* the promise of getChordTokensForBlock resolves and the continuation runs:
\* this.transpose(chordTokens, editorView, direction), lines 87 and 213, that
\* is lines 260-282
ResumeTranspose ==
    /\ \E op \in BagToSet(pending) :
        LET batch == transpose(op.chordTokens, op.direction)
        IN  /\ pending' = pending (-) SetToBag({op})
            /\ IF workspace.chordPlugin /\ docVersion < MaxVersion
               THEN /\ docLine' = applyChanges(docLine, batch)
                    /\ docVersion' = docVersion + 1
               ELSE UNCHANGED <<docLine, docVersion>>
    /\ lastCall' = NoCall
    /\ UNCHANGED <<regVars, pluginPhase, workspace, autoscroll>>

\* changeInstrument(editor, selectedInstrument, blockStart), lines 241-258:
\* the block's first line is replaced by one naming selectedInstrument, which
\* is a document change that leaves the line of chords as it is (the text of
\* the first line is not part of the model)
changeInstrument(selectedInstrument) ==
    IF workspace.view /\ workspace.chordPlugin /\ docVersion < MaxVersion
    THEN /\ selectedInstrument \in InstrumentInputs
         /\ docVersion' = docVersion + 1
         /\ UNCHANGED docLine
    ELSE UNCHANGED docVars

\* handler of "chord-sheet-instrument-change", lines 67-75
InstrumentChangeEvent ==
    /\ Ready
    /\ \E i \in InstrumentInputs :
        IF workspace.view THEN changeInstrument(i) ELSE UNCHANGED docVars
    /\ lastCall' = NoCall
    /\ UNCHANGED <<regVars, pluginPhase, pending, workspace, autoscroll>>

\* changeInstrumentCommand(view, plugin, checking, instrument), lines 183-199
changeInstrumentCommand(checking, i) ==
    /\ workspace.view
    /\ IF workspace.chordPlugin /\ ~workspace.cursorInBlock
       THEN /\ lastCall' = IF checking THEN [checking |-> TRUE, result |-> FALSE] ELSE NoCall
            /\ UNCHANGED docVars
       ELSE /\ lastCall' = IF checking THEN [checking |-> TRUE, result |-> TRUE] ELSE NoCall
            /\ IF workspace.chordPlugin /\ ~checking
               THEN changeInstrument(i)
               ELSE UNCHANGED docVars

\* commands chord-sheet-instrument-change-*, lines 110-132
ChangeInstrumentCommand ==
    /\ Ready
    /\ \E checking \in BOOLEAN, i \in InstrumentInputs : changeInstrumentCommand(checking, i)
    /\ UNCHANGED <<regVars, pluginPhase, pending, workspace, autoscroll>>

\* toggleAutoscroll(view), lines 284-295, with startAutoscroll, lines 326-331
toggleAutoscroll ==
    autoscroll' =
        IF autoscroll.present /\ autoscroll.isRunning
        THEN [autoscroll EXCEPT !.isRunning = FALSE]
        ELSE [present |-> TRUE, isRunning |-> TRUE,
              speed |-> IF autoscroll.present THEN autoscroll.speed ELSE 1]

\* command chord-sheet-toggle-autoscroll, lines 148-163
ToggleAutoscrollCommand ==
    /\ Ready
    /\ \E checking \in BOOLEAN :
        IF ~workspace.view
        THEN /\ lastCall' = IF checking THEN [checking |-> TRUE, result |-> FALSE] ELSE NoCall
             /\ UNCHANGED autoscroll
        ELSE /\ lastCall' = IF checking THEN [checking |-> TRUE, result |-> TRUE] ELSE NoCall
             /\ IF ~checking THEN toggleAutoscroll ELSE UNCHANGED autoscroll
    /\ UNCHANGED <<regVars, pluginPhase, docVars, pending, workspace>>

\* adjustScrollSpeedCommand(action, checking), lines 221-239; increaseSpeed and
\* decreaseSpeed move the speed one step within its range
adjustScrollSpeedCommand(action, checking) ==
    IF ~workspace.view \/ ~autoscroll.present \/ ~autoscroll.isRunning
    THEN /\ lastCall' = IF checking THEN [checking |-> TRUE, result |-> FALSE] ELSE NoCall
         /\ UNCHANGED autoscroll
    ELSE /\ lastCall' = IF checking THEN [checking |-> TRUE, result |-> TRUE] ELSE NoCall
         /\ IF checking THEN UNCHANGED autoscroll
            ELSE autoscroll' =
                    [autoscroll EXCEPT !.speed =
                        IF action = "increase"
                        THEN (IF @ < MaxSpeed THEN @ + 1 ELSE @)
                        ELSE (IF @ > 1 THEN @ - 1 ELSE @)]

\* commands chord-sheet-autoscroll-increase / -decrease, lines 165-175
AdjustScrollSpeedCommand ==
    /\ Ready
    /\ \E action \in {"increase", "decrease"}, checking \in BOOLEAN :
        adjustScrollSpeedCommand(action, checking)
    /\ UNCHANGED <<regVars, pluginPhase, docVars, pending, workspace>>

\* workspace event "file-open", lines 95-101
FileOpen ==
    /\ Ready
    /\ autoscroll' = Stopped(autoscroll)
    /\ lastCall' = NoCall
    /\ UNCHANGED <<regVars, pluginPhase, docVars, pending, workspace>>

\* the user edits the block; workspace event "editor-change", lines 103-105
EditorChange ==
    /\ Ready
    /\ workspace.view
    /\ docVersion < MaxVersion
    /\ \E line \in DocInputs :
        /\ line # docLine
        /\ docLine' = line
    /\ docVersion' = docVersion + 1
    /\ lastCall' = NoCall
    /\ UNCHANGED <<regVars, pluginPhase, pending, workspace, autoscroll>>

\* onunload(), lines 361-363
Onunload ==
    /\ Ready
    /\ pluginPhase' = "unloaded"
    /\ autoscroll' = Stopped(autoscroll)
    /\ lastCall' = NoCall
    /\ UNCHANGED <<regVars, docVars, pending, workspace>>

(***************************************************************************)
(* Specifications.  Each one starts the part of the program it is about    *)
(* from its inputs and leaves the other parts at rest.                     *)
(***************************************************************************)

\* one call of transpose on a block of chord tokens
InitTranspose ==
    /\ chordTokenRanges \in InputBlocks
    /\ direction = "none"
    /\ changes = <<>>
    /\ origChord = <<>> /\ curChord = <<>> /\ ups = 0 /\ downs = 0
    /\ defs = <<>> /\ moduleState = "unloaded" /\ moduleError = ""
    /\ customChordTypes = <<>> /\ dictionary = BaseDictionary /\ index = BaseIndex
    /\ addCalls = 0
    /\ pluginPhase = "off" /\ docLine = <<>> /\ docVersion = 0
    /\ pending = EmptyBag /\ workspace = NoWorkspace /\ autoscroll = NoControl
    /\ lastCall = NoCall

NextTranspose == TransposeCall /\ UNCHANGED <<cycVars, regVars, plugVars>>

SpecTranspose == InitTranspose /\ [][NextTranspose]_vars

\* one chord transposed repeatedly
InitCycle ==
    /\ origChord \in CycleChords
    /\ curChord = origChord
    /\ ups = 0 /\ downs = 0
    /\ chordTokenRanges = <<>> /\ direction = "none" /\ changes = <<>>
    /\ defs = <<>> /\ moduleState = "unloaded" /\ moduleError = ""
    /\ customChordTypes = <<>> /\ dictionary = BaseDictionary /\ index = BaseIndex
    /\ addCalls = 0
    /\ pluginPhase = "off" /\ docLine = <<>> /\ docVersion = 0
    /\ pending = EmptyBag /\ workspace = NoWorkspace /\ autoscroll = NoControl
    /\ lastCall = NoCall

NextCycle ==
    \/ StepUp /\ UNCHANGED <<trVars, regVars, plugVars>>
    \/ StepDown /\ UNCHANGED <<trVars, regVars, plugVars>>

SpecCycle == InitCycle /\ [][NextCycle]_vars

\* the customChordTypes module evaluated on given entries, and its export
\* called any number of times
InitRegistry ==
    /\ defs \in DefsInputs
    /\ moduleState = "unloaded" /\ moduleError = ""
    /\ customChordTypes = <<>> /\ dictionary = BaseDictionary /\ index = BaseIndex
    /\ addCalls = 0
    /\ chordTokenRanges = <<>> /\ direction = "none" /\ changes = <<>>
    /\ origChord = <<>> /\ curChord = <<>> /\ ups = 0 /\ downs = 0
    /\ pluginPhase = "off" /\ docLine = <<>> /\ docVersion = 0
    /\ pending = EmptyBag /\ workspace = NoWorkspace /\ autoscroll = NoControl
    /\ lastCall = NoCall

NextRegistry ==
    \/ LoadModule /\ UNCHANGED <<trVars, cycVars, plugVars>>
    \/ AddCustomChordTypes /\ UNCHANGED <<trVars, cycVars, plugVars>>

SpecRegistry == InitRegistry /\ [][NextRegistry]_vars

\* the plugin from the loading of its bundle to its unloading
Init ==
    /\ pluginPhase = "off"
    /\ docLine \in DocInputs
    /\ docVersion = 0
    /\ pending = EmptyBag
    /\ workspace = [view |-> TRUE, chordPlugin |-> TRUE, cursorInBlock |-> TRUE]
    /\ autoscroll = NoControl
    /\ lastCall = NoCall
    /\ defs = SourceDefs
    /\ moduleState = "unloaded" /\ moduleError = ""
    /\ customChordTypes = <<>> /\ dictionary = BaseDictionary /\ index = BaseIndex
    /\ addCalls = 0
    /\ chordTokenRanges = <<>> /\ direction = "none" /\ changes = <<>>
    /\ origChord = <<>> /\ curChord = <<>> /\ ups = 0 /\ downs = 0

Next ==
    \/ ImportModules /\ UNCHANGED <<trVars, cycVars>>
    \/ RegisterAtLoad /\ UNCHANGED <<trVars, cycVars>>
    \/ OnloadStart /\ UNCHANGED <<trVars, cycVars>>
    \/ OnloadFinish /\ UNCHANGED <<trVars, cycVars>>
    \/ WorkspaceChange /\ UNCHANGED <<trVars, cycVars>>
    \/ TransposeEvent /\ UNCHANGED <<trVars, cycVars>>
    \/ TransposeCommand /\ UNCHANGED <<trVars, cycVars>>
    \/ ResumeTranspose /\ UNCHANGED <<trVars, cycVars>>
    \/ InstrumentChangeEvent /\ UNCHANGED <<trVars, cycVars>>
    \/ ChangeInstrumentCommand /\ UNCHANGED <<trVars, cycVars>>
    \/ ToggleAutoscrollCommand /\ UNCHANGED <<trVars, cycVars>>
    \/ AdjustScrollSpeedCommand /\ UNCHANGED <<trVars, cycVars>>
    \/ FileOpen /\ UNCHANGED <<trVars, cycVars>>
    \/ EditorChange /\ UNCHANGED <<trVars, cycVars>>
    \/ Onunload /\ UNCHANGED <<trVars, cycVars>>

Spec == Init /\ [][Next]_vars

(***************************************************************************)
(* Properties of transpose.                                                *)
(***************************************************************************)
HasSlash(text) == includes(QualityOf(text), "/")
\* the quality text before its first slash, and all of the text after it
BeforeSlash(text) == SubSeq(QualityOf(text), 1, IndexOf(QualityOf(text), "/") - 1)
AfterSlash(text) == DropFirst(QualityOf(text), IndexOf(QualityOf(text), "/"))
\* the text between the first slash and the next one (the end when there is none)
BassSegment(text) == split(QualityOf(text), "/")[2]

Called == direction # "none"

\* C3: every replacement text is transposeTonic(tonic) + q + "/" + transposeTonic(b)
\* when the quality contains a slash, q and b being the whole of the quality
\* before and after that slash (nothing of it is lost), and
\* transposeTonic(tonic) + quality otherwise.
C3_ReplacementKeepsWholeQuality ==
    Called =>
        \A i \in 1..Len(changes) :
            LET v == chordTokenRanges[i].value
            IN  changes[i].insert =
                    IF HasSlash(v)
                    THEN transposeTonic(TonicOf(v), direction) \o BeforeSlash(v) \o <<"/">>
                            \o transposeTonic(AfterSlash(v), direction)
                    ELSE transposeTonic(TonicOf(v), direction) \o QualityOf(v)

\* C4: the batch has exactly one edit per input token, the i-th edit carrying
\* the i-th token's from and to and its transposed text; with ascending disjoint
\* input spans the batch is ascending and non-overlapping.
C4_OneEditPerTokenInOrder ==
    Called =>
        /\ Len(changes) = Len(chordTokenRanges)
        /\ \A i \in 1..Len(chordTokenRanges) :
            /\ i <= Len(changes)
            /\ changes[i].from = chordTokenRanges[i].from
            /\ changes[i].to = chordTokenRanges[i].to
            /\ changes[i].insert = transposedChord(chordTokenRanges[i].value, direction)
        /\ \A i, j \in 1..Len(changes) :
            i < j => changes[i].from < changes[i].to /\ changes[i].to <= changes[j].from

C4_Witness ==
    /\ Called
    /\ Len(chordTokenRanges) >= 2
    /\ chordTokenRanges[1].value # chordTokenRanges[2].value
    /\ chordTokenRanges[1].from > 0

\* a slash chord whose bass segment is not a recognizable tonic
Malformed(text) == HasSlash(text) /\ ~IsTonic(BassSegment(text))

C5_SemitonePerStep ==
    LET shift == ups + (11 * downs)
    IN  /\ IsTonic(TonicOf(curChord))
        /\ PitchClass(TonicOf(curChord)) = (PitchClass(TonicOf(origChord)) + shift) % 12
        /\ HasSlash(curChord) = HasSlash(origChord)
        /\ ~HasSlash(origChord) => QualityOf(curChord) = QualityOf(origChord)
        /\ HasSlash(origChord) =>
            /\ BeforeSlash(curChord) = BeforeSlash(origChord)
            /\ IF IsTonic(AfterSlash(origChord))
               THEN /\ IsTonic(AfterSlash(curChord))
                    /\ PitchClass(AfterSlash(curChord))
                         = (PitchClass(AfterSlash(origChord)) + shift) % 12
               ELSE AfterSlash(curChord) = AfterSlash(origChord)

(***************************************************************************)
(* Properties of the chord type registry.                                  *)
(***************************************************************************)
\* the extendChordType calls of the array literal whose base type is not in
\* the base table
MissingBases ==
    { i \in 1..Len(defs) :
        defs[i].kind = "extend" /\ defs[i].type \notin DOMAIN BaseIndex }

\* C1: extendChordType on a base name the base table does not contain fails
\* with an error naming that type, and then no chord type at all is added to
\* the global table, which stays as it was before initialization.
C1_MissingBaseAbortsWithoutRegistration ==
    (moduleState # "unloaded" /\ MissingBases # {}) =>
        /\ moduleState = "failed"
        /\ \E i \in MissingBases :
            /\ \A j \in MissingBases : i <= j
            /\ moduleError = defs[i].type
            /\ extendChordType(BaseIndex, defs[i].type, defs[i].ext).thrown
        /\ customChordTypes = <<>>
        /\ addCalls = 0
        /\ dictionary = BaseDictionary
        /\ index = BaseIndex

C1_Witness ==
    /\ moduleState = "failed"
    /\ moduleError = "nonexistent"
    /\ defs[2].type = "nonexistent"

\* C2: for an existing base type, extendChordType returns the base aliases
\* followed by the extension aliases (base first, duplicates kept), the
\* extension's value for every other field the extension has, and the base's
\* value for every field it has not.
C2_ExtendMergesAliasesAndOverrides ==
    moduleState = "loaded" =>
        \A i \in 1..Len(defs) :
            defs[i].kind = "extend" =>
                LET base == BaseIndex[defs[i].type]
                    ext == defs[i].ext
                    r == customChordTypes[i]
                IN  /\ DOMAIN r = DOMAIN base \cup DOMAIN ext
                    /\ r.aliases = base.aliases \o
                         (IF "aliases" \in DOMAIN ext THEN ext.aliases ELSE <<>>)
                    /\ \A f \in DOMAIN ext \ {"aliases"} : r[f] = ext[f]
                    /\ \A f \in DOMAIN base \ (DOMAIN ext \cup {"aliases"}) : r[f] = base[f]

C2_Witness ==
    /\ moduleState = "loaded"
    /\ defs[2] = [kind |-> "extend", type |-> "M7",
                  ext |-> [aliases |-> <<"maj7", "7M">>, name |-> "custom"]]
    /\ customChordTypes[2].aliases = <<"maj7", "M7", "maj7", "7M">>
    /\ customChordTypes[2].name = "custom"
    /\ customChordTypes[2].quality = "Major"

\* the table after one call of addCustomChordTypes
TableAfterOneCall ==
    AddAll([dictionary |-> BaseDictionary, index |-> BaseIndex], customChordTypes)

\* C7 as claimed: after any number of calls of addCustomChordTypes the global
\* table (its list of types and its lookups by name and alias) is the table
\* after one call.
C7_TableIdenticalAfterRepeatedCalls ==
    addCalls >= 1 =>
        /\ dictionary = TableAfterOneCall.dictionary
        /\ index = TableAfterOneCall.index

\* C7 as amended: after any number of calls every lookup by name or alias gives
\* what it gives after one call, and the list holds the same types, each custom
\* type once per call.
C7_LookupsIdenticalAfterRepeatedCalls ==
    addCalls >= 1 =>
        /\ index = TableAfterOneCall.index
        /\ Range(dictionary) = Range(TableAfterOneCall.dictionary)
        /\ Len(dictionary) = Len(BaseDictionary) + (addCalls * Len(customChordTypes))
        /\ \A i \in 1..Len(BaseDictionary) : dictionary[i] = BaseDictionary[i]
        /\ \A c \in 1..addCalls : \A i \in 1..Len(customChordTypes) :
            LET chord == dictionary[Len(BaseDictionary) + ((c - 1) * Len(customChordTypes)) + i]
            IN  /\ chord.name = customChordTypes[i].name
                /\ chord.aliases = customChordTypes[i].aliases
                /\ chord.intervals = customChordTypes[i].intervals

C7_Witness ==
    /\ addCalls >= 2
    /\ defs = SourceDefs
    /\ index["7M"].name = "major seventh"
    /\ Len(dictionary) > Len(TableAfterOneCall.dictionary)

(***************************************************************************)
(* Properties of the running plugin.                                       *)
(***************************************************************************)
\* the four chord types the module exports once it is loaded: customChordTypes.ts, lines 9-18
ExpectedCustomChordTypes ==
    << [name |-> "", intervals |-> <<"1P", "3M", "5A", "7m">>,
        aliases |-> <<"7#5", "+7", "7(5+)", "7(+5)", "7+5">>],
       [name |-> "major seventh", intervals |-> <<"1P", "3M", "5P", "7M">>,
        aliases |-> <<"maj7", "M7", "7M">>],
       [name |-> "minor ninth", intervals |-> <<"1P", "3m", "5P", "7m", "9M">>,
        aliases |-> <<"m9", "-9", "m7(9)">>],
       [name |-> "suspended four sharp five", intervals |-> <<"1P", "4P", "5A">>,
        aliases |-> <<"sus4#5", "4(5+)">>] >>

\* a transpose has been started, or a command callback has run
EngineReached == pending # EmptyBag \/ docVersion > 0 \/ lastCall.checking

C9_EditsAppliedToTokenizedVersion ==
    [][ \A op \in BagToSet(pending) :
            (pending' = pending (-) SetToBag({op}) /\ docVersion' = docVersion + 1)
                => op.version = docVersion ]_vars

\* C10: a command check callback called with checking = true only answers:
\* no document edit, no transpose started, no autoscroll started or stopped,
\* no speed changed and no entry added to the view-to-control map.
C10_CheckingLeavesStateUnchanged ==
    [][ lastCall'.checking =>
            UNCHANGED <<docVars, pending, autoscroll, workspace, pluginPhase, regVars>> ]_vars

C10_Witness ==
    /\ lastCall = [checking |-> TRUE, result |-> TRUE]
    /\ workspace.cursorInBlock
    /\ autoscroll.present /\ autoscroll.isRunning /\ autoscroll.speed = 1
    /\ pending = EmptyBag
    /\ docVersion = 0

====
